---- MODULE Spec2Model ----
(***************************************************************************)
(* github-top-repos: the search-exhaustion tools of the repository.         *)
(*                                                                          *)
(*   "hourly"  src/main.go (first program): offset walk, rate limiter,      *)
(*             one Search per day and hour of the range                     *)
(*   "daily"   src/unnamed/part_002: offset walk, one Search per day        *)
(*   "pushed"  src/unnamed/part_003: IterSearch, pushed-date watermark,     *)
(*             seen-set keyed by DatabaseId                                 *)
(*   "legacy"  src/main.go (second program): IterSearch as above, with a  *)
(*             seen-set keyed by NameWithOwner                              *)
(*   "metric"  src/unnamed/part_001: stars/forks/size batches bounded by    *)
(*             field:<=lastValue                                            *)
(*                                                                          *)
(* The GitHub search endpoint is the environment.  It answers a request     *)
(* with a page of nodes and a HasNextPage flag, or with an error message.   *)
(***************************************************************************)
EXTENDS Integers, Sequences, FiniteSets, TLC

\* ------------------------------------------------------------ bounds
MaxDays == 2        \* days in the range start..end
MaxIds == 2         \* DatabaseIds an arbitrary backend draws from
MaxPageLen == 1     \* nodes in one page of an arbitrary backend
MaxEvents == 2      \* non-empty pages an arbitrary backend returns in a run
BusyParts == 2      \* an arbitrary backend has matches in the last partitions only
MaxFaults == 2      \* error replies a backend returns in a run
MaxTotal == 1001    \* matches of a partition of a stable backend
BufRows == 1        \* rows the buffer of the csv writer holds
MaxRuns == 2        \* runs of a tool with the same arguments
MaxBlocks == 3      \* distinct push times / values of a stable backend
MaxDriftFaults == 1 \* error replies of a drifting backend in a run

\* ------------------------------------------------- program constants
Ceiling == 1000     \* for offset := 0; offset < 1000
PageSize == 100     \* search(..., first: 100, ...)
MaxShift == 9       \* the nodes two consecutive pages share
StepWide == PageSize + 1   \* a step wider than a page
StepLonger == PageSize - MaxShift + 1   \* a step that leaves one node less shared
Step == 91          \* offset += 91
HoursPerDay == 24   \* for hour := 0; hour < 24
ResultCap == 1000   \* the provider shows at most 1000 matches of a query

Nil == -1           \* a nil pointer (cursor, since), an absent query clause
NoErr == {}         \* no error

\* ------------------------------------------------------ error messages
\* An error message is modelled by the set of the texts it contains that
\* the programs look for (strings.Contains), plus its own text.
SecondaryRateLimit == "You have exceeded a secondary rate limit"
SecondaryRateLimitDot == "You have exceeded a secondary rate limit."
SomethingWentWrong == "Something went wrong while executing your query"
SomethingWentWrongDot == "Something went wrong while executing your query."
GatewayTimeout == "504 Gateway Timeout"
BadCredentials == "401 Unauthorized: Bad credentials"

MsgSecondary == {SecondaryRateLimit, SecondaryRateLimitDot}
MsgWrong == {SomethingWentWrong, SomethingWentWrongDot}
Msg504 == {GatewayTimeout}
MsgBadCredentials == {BadCredentials}
\* the error of client.Query once ctx is cancelled
ContextCanceled == "context canceled"
MsgCanceled == {ContextCanceled}

\* the three transient classes of the error taxonomy, and one fatal error
TransientMsgs == {MsgSecondary, MsgWrong, Msg504}
ErrMsgs == TransientMsgs \cup {MsgBadCredentials}

Contains(msg, text) == text \in msg

\* src/main.go:79
TransientHourly(e) ==
  \/ Contains(e, SecondaryRateLimit)
  \/ Contains(e, SomethingWentWrong)
  \/ Contains(e, GatewayTimeout)

\* src/unnamed/part_002:76
TransientDaily(e) ==
  \/ Contains(e, SecondaryRateLimitDot)
  \/ Contains(e, SomethingWentWrongDot)
  \/ Contains(e, GatewayTimeout)

\* src/unnamed/part_003:91
TransientPushed(e) == Contains(e, SecondaryRateLimitDot)

\* ------------------------------------------------------------- state
VARIABLES
  tool,      \* the program that runs
  backend,   \* the environment: "any", or the fixture it answers from
  endDay,    \* endTime as a day number; startTime is day 0
  day, hour, \* loop variables of main (offset scrapers)
  pc,        \* position of the single thread of control
  offset,    \* Search: loop variable
  cursor,    \* RepositorySearch: the cursor of the next page
  since,     \* IterSearch: the watermark, Nil before the first page
  lastValue, \* metric tool: the trailing value of the previous batch
  uniq,      \* the seen-set
  repos,     \* the accumulated result, or the page being ranged over
  idx,       \* IterSearch: elements of repos already ranged over
  done,      \* the latest page had no next page (IterSearch: done)
  req,       \* the request in flight, or the last one sent
  writer,    \* rows handed to the output, in order
  err,       \* the error the run ended with (log.Fatalf), or NoErr
  lastErr,   \* the error of the latest reply, NoErr when it was a page
  held,      \* hourly: a rate-limiter slot was taken and not yet used
  attempts,  \* requests sent for the current page
  fails,     \* transient failures of the current page
  events,    \* non-empty pages the arbitrary backend has returned
  faults,    \* error replies the backend has returned
  cancelled, \* ctx of signal.NotifyContext is done: an interrupt arrived
  cut,       \* rows handed to the output when the interrupt arrived, or Nil
  flushed,   \* rows of writer that have reached stdout
  runs,      \* the outputs of the runs completed before this one
  query,     \* the search query of the command line, a sequence of clauses
  order      \* a backend whose order drifts: where the followed match is

vars == <<tool, backend, endDay, day, hour, pc, offset, cursor, since,
          lastValue, uniq, repos, idx, done, req, writer, err, lastErr,
          held, attempts, fails, events, faults, cancelled, cut, flushed,
          runs, query, order>>

\* what no action of a run changes
config == <<tool, backend, endDay, runs, query>>
\* the budget of the environment
budget == <<events, faults>>
\* the interrupt
signal == <<cancelled, cut>>

OffsetTools == {"hourly", "daily"}
WatermarkTools == {"pushed", "legacy"}
Tools == OffsetTools \cup WatermarkTools \cup {"metric"}

\* A node of a page: the fields of Repository the programs read.  name
\* stands for NameWithOwner, value for the field the metric tool sorts by.
Node(i, n, p, v) == [id |-> i, name |-> n, pushedAt |-> p, value |-> v]

\* A clause of a query string: its text up to the value, and the value
\* (<<>> when the text has none, <<lo, hi>> for a range).
Clause(k, v) == [key |-> k, val |-> v]

\* A request: the query string as its sequence of clauses, the cursor
\* variable, and what the provider reads from the clauses the program adds:
\*   lo..hi  created:lo..hi       since  pushed:>=since
\*   le      field:<=le (Nil: field:>0)
Request(q, lo, hi, c, s, le) ==
  [query |-> q, lo |-> lo, hi |-> hi, cursor |-> c, since |-> s, le |-> le]
NoReq == Request(<<>>, Nil, Nil, Nil, Nil, Nil)

\* query := fmt.Sprintf("%s created:%s..%s", *query, ...): the query of a
\* partition; Search hands it to client.Query as it is
PartQuery(q, w) == Append(q, Clause("created:", <<w.lo, w.hi>>))

\* Search of the watermark tool: query += " sort:updated-asc", and
\* query += " pushed:>=" + since when since is not nil
SearchQuery(q, s) ==
  q \o <<Clause("sort:updated-asc", <<>>)>>
    \o (IF s # Nil THEN <<Clause("pushed:>=", <<s>>)>> ELSE <<>>)

\* metric tool: query := query + "sort:" + field, then " field:>0" or
\* " field:<=lastValue"
BatchQuery(q, v) ==
  q \o <<Clause("sort:field", <<>>)>>
    \o (IF v = 0 THEN <<Clause("field:>", <<0>>)>>
                 ELSE <<Clause("field:<=", <<v>>)>>)

\* The environment.  kind "any": every reply is possible.  kind "stable":
\* an unchanging set of matches with a stable order, described by data:
\*   offset scrapers  the number of matches of each of the last partitions
\*   watermark tool   the number of repositories pushed at time 1, 2, ...
\*   metric tool      the number of repositories with value 0, 1, ...
AnyBackend == [kind |-> "any", data |-> <<>>]
RenameBackend == [kind |-> "rename", data |-> <<>>]
StableBackend(d) == [kind |-> "stable", data |-> d]
DriftBackend == [kind |-> "drift", data |-> <<>>]

\* The order of a drifting backend, as far as one match is concerned:
\*   pos   the position of the match at the latest request (Nil: none yet)
\*   at    its position at the latest request that was answered with a page
\*   calm  between any two requests answered in a row it moved by at most
\*         MaxShift places
Order(p, a, c) == [pos |-> p, at |-> a, calm |-> c]
NoOrder == Order(Nil, Nil, TRUE)

Min(a, b) == IF a < b THEN a ELSE b

\* ------------------------------------------------ the offset scrapers
\* Cursor that never leaves the first page.
CursorFirst(o) == Nil

\* cursor := nil, or base64("cursor:<offset>") when offset > 0
Cursor(o) == IF o > 0 THEN o ELSE Nil

\* Window whose end is the first second of the next window.
WindowToNext(t, d, h) ==
  IF t = "hourly"
  THEN [lo |-> d * 86400 + h * 3600, hi |-> d * 86400 + (h + 1) * 3600]
  ELSE [lo |-> d * 86400, hi |-> (d + 1) * 86400]

\* The created: window of one partition, in seconds since day 0 00:00:00Z.
\* hourly: created:<day>T<hh>:00:00Z..<day>T<hh>:59:59Z
\* daily : created:<day>T00:00:00Z..<day>T23:59:59Z
Window(t, d, h) ==
  IF t = "hourly"
  THEN [lo |-> d * 86400 + h * 3600, hi |-> d * 86400 + h * 3600 + 3599]
  ELSE [lo |-> d * 86400, hi |-> d * 86400 + 86399]

IsTransient(t, e) ==
  CASE t = "hourly" -> TransientHourly(e)
    [] t = "daily" -> TransientDaily(e)
    [] t \in WatermarkTools -> TransientPushed(e)
    [] OTHER -> FALSE

\* Collect with a seen-set that lives for one page only.
CollectPerPage(nodes, u, rs) ==
  LET marked == [i \in DOMAIN nodes |->
                   [node |-> nodes[i],
                    new |-> \A j \in 1..(i - 1) : nodes[j].id # nodes[i].id]]
      kept == SelectSeq(marked, LAMBDA m : m.new)
  IN [uniq |-> {nodes[i].id : i \in DOMAIN nodes},
      repos |-> rs \o [k \in 1..Len(kept) |-> kept[k].node]]

\* Collect without the seen-set test: every node is appended.
CollectAll(nodes, u, rs) ==
  [uniq |-> u \cup {nodes[i].id : i \in DOMAIN nodes}, repos |-> rs \o nodes]

\* for _, node := range results.Search.Nodes: a node whose DatabaseId is
\* in uniq, or is that of an earlier node of the page, is skipped; the
\* others are marked seen and appended to repos in page order.
Collect(nodes, u, rs) ==
  LET marked == [i \in DOMAIN nodes |->
                   [node |-> nodes[i],
                    new |-> /\ nodes[i].id \notin u
                            /\ \A j \in 1..(i - 1) : nodes[j].id # nodes[i].id]]
      kept == SelectSeq(marked, LAMBDA m : m.new)
  IN [uniq |-> u \cup {nodes[i].id : i \in DOMAIN nodes},
      repos |-> rs \o [k \in 1..Len(kept) |-> kept[k].node]]

\* StartSearch with a seen-set that outlives the Search invocation.
StartSearchKeep ==
  /\ pc = "main"
  /\ tool \in OffsetTools
  /\ day <= endDay
  /\ offset' = 0
  /\ repos' = <<>>
  /\ attempts' = 0
  /\ fails' = 0
  /\ pc' = "retry"
  /\ UNCHANGED <<lastErr, config, order, signal, flushed, budget, day, hour, cursor, since, lastValue, idx,
                 done, req, writer, err, held, uniq>>

\* main: the loop header; a Search invocation starts with fresh locals
StartSearch ==
  /\ pc = "main"
  /\ tool \in OffsetTools
  /\ day <= endDay
  /\ offset' = 0
  /\ uniq' = {}
  /\ repos' = <<>>
  /\ attempts' = 0
  /\ fails' = 0
  /\ pc' = "retry"
  /\ UNCHANGED <<lastErr, config, order, signal, flushed, budget, day, hour, cursor, since, lastValue, idx,
                 done, req, writer, err, held>>

\* main: the range is exhausted; writer.Flush and return
Finish ==
  /\ pc = "main"
  /\ tool \in OffsetTools
  /\ day > endDay
  /\ flushed' = Len(writer)
  /\ pc' = "done"
  /\ UNCHANGED <<lastErr, config, order, signal, budget, day, hour, offset, cursor, since, lastValue,
                 uniq, repos, idx, done, req, writer, err, held, attempts,
                 fails>>

\* Take that acquires a slot for first attempts only: a retry after a
\* transient error goes to the request without one.
TakeFirstOnly ==
  /\ pc = "retry"
  /\ tool = "hourly"
  /\ held' = (fails = 0)
  /\ pc' = "send"
  /\ UNCHANGED <<lastErr, config, order, signal, flushed, budget, day, hour, offset, cursor, since, lastValue,
                 uniq, repos, idx, done, req, writer, err, attempts, fails>>

\* hourly: rl.Take() blocks until a slot is free
Take ==
  /\ pc = "retry"
  /\ tool = "hourly"
  /\ held' = TRUE
  /\ pc' = "send"
  /\ UNCHANGED <<lastErr, config, order, signal, flushed, budget, day, hour, offset, cursor, since, lastValue,
                 uniq, repos, idx, done, req, writer, err, attempts, fails>>

\* client.Query(ctx, &results, {query, cursor})
SendQuery ==
  /\ \/ pc = "send" /\ tool = "hourly"
     \/ pc = "retry" /\ tool = "daily"
  /\ req' = Request(PartQuery(query, Window(tool, day, hour)),
                    Window(tool, day, hour).lo, Window(tool, day, hour).hi,
                    Cursor(offset), Nil, Nil)
  /\ held' = FALSE
  /\ attempts' = attempts + 1
  /\ pc' = "wait"
  /\ UNCHANGED <<lastErr, config, order, signal, flushed, budget, day, hour, offset, cursor, since, lastValue,
                 uniq, repos, idx, done, writer, err, fails>>

\* SearchPage that walks on to the ceiling whatever HasNextPage says.
SearchPageOn(nodes, hasNext) ==
  /\ lastErr' = NoErr
  /\ done' = ~hasNext
  /\ uniq' = Collect(nodes, uniq, repos).uniq
  /\ repos' = Collect(nodes, uniq, repos).repos
  /\ IF offset + Step < Ceiling
     THEN /\ offset' = offset + Step
          /\ attempts' = 0
          /\ fails' = 0
          /\ pc' = "retry"
     ELSE /\ pc' = "write"
          /\ UNCHANGED <<offset, attempts, fails>>

\* Search, from a successful reply to the loop's next iteration or return
SearchPage(nodes, hasNext) ==
  /\ lastErr' = NoErr
  /\ done' = ~hasNext
  /\ uniq' = Collect(nodes, uniq, repos).uniq
  /\ repos' = Collect(nodes, uniq, repos).repos
  /\ IF hasNext /\ offset + Step < Ceiling
     THEN /\ offset' = offset + Step
          /\ attempts' = 0
          /\ fails' = 0
          /\ pc' = "retry"
     ELSE /\ pc' = "write"
          /\ UNCHANGED <<offset, attempts, fails>>

\* SearchError that retries whatever the error is.
SearchErrorRetry(e) ==
  /\ lastErr' = e
  /\ pc' = "sleep"
  /\ fails' = fails + 1
  /\ UNCHANGED <<err, repos>>

\* SearchError that gives up the partition and goes on with the next one.
SearchErrorSkip(e) ==
  /\ lastErr' = e
  /\ IF IsTransient(tool, e)
     THEN /\ pc' = "sleep"
          /\ fails' = fails + 1
          /\ UNCHANGED <<err, repos>>
     ELSE /\ pc' = "write"
          /\ err' = e
          /\ repos' = <<>>
          /\ UNCHANGED fails

\* Search, from a failed request: sleep and goto Retry, or return nil, err
\* and main's log.Fatalf
SearchError(e) ==
  /\ lastErr' = e
  /\ IF IsTransient(tool, e)
     THEN /\ pc' = "sleep"
          /\ fails' = fails + 1
          /\ UNCHANGED <<err, repos>>
     ELSE /\ pc' = "fatal"
          /\ err' = e
          /\ repos' = <<>>
          /\ UNCHANGED fails

\* the number of the partition main is at, counted from 0
PartIndex == IF tool = "hourly" THEN day * HoursPerDay + hour ELSE day

\* the number of partitions of the range
PartCount == IF tool = "hourly" THEN (endDay + 1) * HoursPerDay ELSE endDay + 1

\* ---------------------------------------------- an arbitrary backend
\* Any page of at most MaxPageLen nodes over a small universe, with any
\* HasNextPage flag.  It returns at most MaxEvents non-empty pages, and
\* for the partitioned tools only the last BusyParts partitions are not
\* empty.
Ids == 1..MaxIds
Times == 1..MaxIds
Values == 0..MaxIds

\* the display paths repository i can have: its own, or under a backend
\* with renames any path of the universe
Names(i) == IF backend.kind = "rename" THEN Ids ELSE {i}

AnyNodes ==
  UNION {CASE tool \in OffsetTools -> {Node(i, n, 0, 0) : n \in Names(i)}
           [] tool \in WatermarkTools ->
                {Node(i, n, t, 0) : n \in Names(i), t \in Times}
           [] OTHER -> {Node(i, n, 0, v) : n \in Names(i), v \in Values}
         : i \in Ids}

AnyPages == UNION {[1..n -> AnyNodes] : n \in 0..MaxPageLen}

Busy == tool \in OffsetTools => PartIndex >= PartCount - BusyParts

AnyReply(nodes, hasNext) ==
  /\ backend.kind \in {"any", "rename"}
  /\ ~cancelled
  /\ nodes \in AnyPages
  /\ hasNext \in BOOLEAN
  /\ nodes # <<>> => events < MaxEvents
  /\ (nodes # <<>> \/ hasNext) => Busy
  /\ events' = IF nodes # <<>> THEN events + 1 ELSE events

ReplyAny ==
  /\ pc = "wait"
  /\ tool \in OffsetTools
  /\ \E nodes \in AnyPages, hasNext \in BOOLEAN :
       /\ AnyReply(nodes, hasNext)
       /\ SearchPage(nodes, hasNext)
  /\ UNCHANGED <<config, order, signal, flushed, faults, day, hour, cursor, since, lastValue, idx,
                 req, writer, err, held>>

ReplyError ==
  /\ pc = "wait"
  /\ tool \in OffsetTools
  /\ faults < MaxFaults
  /\ ~cancelled
  /\ faults' = faults + 1
  /\ \E e \in ErrMsgs : SearchError(e)
  /\ UNCHANGED <<config, order, signal, flushed, events, day, hour, offset, cursor, since, lastValue,
                 uniq, idx, done, req, writer, held, attempts>>

\* Wake that goes on with the next iteration of the offset loop.
WakeNext ==
  /\ pc = "sleep"
  /\ IF tool \in OffsetTools
     THEN IF offset + Step < Ceiling
          THEN pc' = "retry" /\ offset' = offset + Step
          ELSE pc' = "write" /\ offset' = offset
     ELSE pc' = "loop" /\ offset' = offset
  /\ UNCHANGED <<lastErr, config, order, signal, flushed, budget, day, hour, cursor,
                 since, lastValue, uniq, repos, idx, done, req, writer, err,
                 held, attempts, fails>>

\* time.Sleep(10 * time.Second); goto Retry / continue
Wake ==
  /\ pc = "sleep"
  /\ pc' = IF tool \in OffsetTools THEN "retry" ELSE "loop"
  /\ UNCHANGED <<lastErr, config, order, signal, flushed, budget, day, hour, offset, cursor, since, lastValue,
                 uniq, repos, idx, done, req, writer, err, held, attempts,
                 fails>>

\* a row as written: the columns that identify the repository, and the
\* created: window of the query that found it (Nil: no window)
Row(n, lo, hi) == [id |-> n.id, name |-> n.name, lo |-> lo, hi |-> hi]
Rows(rs, q) == [i \in 1..Len(rs) |-> Row(rs[i], q.lo, q.hi)]

\* csv.Writer buffers its output: of n rows written, those that filled
\* the buffer before the latest write have reached stdout
Flushed(n) == IF n = 0 THEN 0 ELSE ((n - 1) \div BufRows) * BufRows

\* main: write the rows of one Search, then advance hour and day
WriteRows ==
  /\ pc = "write"
  /\ tool \in OffsetTools
  /\ writer' = writer \o Rows(repos, Window(tool, day, hour))
  /\ flushed' = Flushed(Len(writer'))
  /\ IF tool = "hourly" /\ hour + 1 < HoursPerDay
     THEN hour' = hour + 1 /\ day' = day
     ELSE hour' = 0 /\ day' = day + 1
  /\ pc' = "main"
  /\ UNCHANGED <<lastErr, config, order, signal, budget, offset, cursor, since, lastValue, uniq,
                 repos, idx, done, req, err, held, attempts, fails>>

\* ------------------------------------- the watermark tool: IterSearch
\* Search(ctx, client, query, since): one page, sort:updated-asc, and
\* pushed:>=since when since is not nil
PushedSearch ==
  /\ pc = "loop"
  /\ tool \in WatermarkTools
  /\ req' = Request(SearchQuery(query, since), Nil, Nil, Nil, since, Nil)
  /\ attempts' = attempts + 1
  /\ pc' = "wait"
  /\ UNCHANGED <<lastErr, config, order, signal, flushed, budget, day, hour, offset, cursor, since, lastValue,
                 uniq, repos, idx, done, writer, err, held, fails>>

\* Search returned repos, done, nil: the range loop starts
IterPage(nodes, hasNext) ==
  /\ lastErr' = NoErr
  /\ repos' = nodes
  /\ done' = ~hasNext
  /\ idx' = 0
  /\ attempts' = 0
  /\ fails' = 0
  /\ pc' = "range"

PushedReplyAny ==
  /\ pc = "wait"
  /\ tool \in WatermarkTools
  /\ \E nodes \in AnyPages, hasNext \in BOOLEAN :
       /\ AnyReply(nodes, hasNext)
       /\ IterPage(nodes, hasNext)
  /\ UNCHANGED <<config, order, signal, flushed, faults, day, hour, offset, cursor, since, lastValue,
                 uniq, req, writer, err, held>>

\* IterError that goes on with the next request after it has yielded the
\* error.
IterErrorContinue(e) ==
  /\ lastErr' = e
  /\ IF IsTransient(tool, e)
     THEN /\ pc' = "sleep"
          /\ fails' = fails + 1
          /\ UNCHANGED err
     ELSE /\ pc' = "loop"
          /\ err' = e
          /\ UNCHANGED fails

\* Search returned an error: sleep and continue, or yield it and return;
\* main's loop body ends the run on it with log.Fatalf
IterError(e) ==
  /\ lastErr' = e
  /\ IF IsTransient(tool, e)
     THEN /\ pc' = "sleep"
          /\ fails' = fails + 1
          /\ UNCHANGED err
     ELSE /\ pc' = "fatal"
          /\ err' = e
          /\ UNCHANGED fails

PushedReplyError ==
  /\ pc = "wait"
  /\ tool \in WatermarkTools
  /\ faults < MaxFaults
  /\ ~cancelled
  /\ faults' = faults + 1
  /\ \E e \in ErrMsgs : IterError(e)
  /\ UNCHANGED <<config, order, signal, flushed, events, day, hour, offset, cursor, since, lastValue,
                 uniq, repos, idx, done, req, writer, held, attempts>>

\* the key of the seen-set: uniq[repo.DatabaseId], uniq[repo.NameWithOwner]
Key(n) == IF tool = "legacy" THEN n.name ELSE n.id

\* one element of the range loop: skip a seen repository, or mark it seen
\* and yield it; main's loop body writes the row and asks for more
IterYield ==
  /\ pc = "range"
  /\ tool \in WatermarkTools
  /\ idx < Len(repos)
  /\ idx' = idx + 1
  /\ IF Key(repos[idx + 1]) \in uniq
     THEN UNCHANGED <<uniq, writer, flushed>>
     ELSE /\ uniq' = uniq \cup {Key(repos[idx + 1])}
          /\ writer' = Append(writer, Row(repos[idx + 1], Nil, Nil))
          /\ flushed' = Flushed(Len(writer'))
  /\ UNCHANGED <<lastErr, config, order, signal, budget, day, hour, pc, offset, cursor, since,
                 lastValue, repos, done, req, err, held, attempts, fails>>

\* one element of the range loop handed to a consumer that answers false,
\* as a loop body that breaks does: if !yield(repo, nil) { return }
IterYieldStop ==
  /\ pc = "range"
  /\ tool \in WatermarkTools
  /\ idx < Len(repos)
  /\ Key(repos[idx + 1]) \notin uniq
  /\ idx' = idx + 1
  /\ uniq' = uniq \cup {Key(repos[idx + 1])}
  /\ writer' = Append(writer, Row(repos[idx + 1], Nil, Nil))
  /\ flushed' = Flushed(Len(writer'))
  /\ pc' = "stopped"
  /\ UNCHANGED <<lastErr, config, order, signal, budget, day, hour, offset, cursor, since,
                 lastValue, repos, done, req, err, held, attempts, fails>>

\* NextSince that starts the next page after the last push time seen.
NextSinceAfter(rs, s) == IF Len(rs) > 0 THEN rs[Len(rs)].pushedAt + 1 ELSE s

\* since = &repos[len(repos)-1].PushedAt.Time, when the page is not empty
NextSince(rs, s) == IF Len(rs) > 0 THEN rs[Len(rs)].pushedAt ELSE s

\* after the range loop: return when done, else move the watermark
IterAdvance ==
  /\ pc = "range"
  /\ tool \in WatermarkTools
  /\ idx = Len(repos)
  /\ IF done
     THEN pc' = "done" /\ flushed' = Len(writer) /\ UNCHANGED since
     ELSE pc' = "loop" /\ since' = NextSince(repos, since) /\ UNCHANGED flushed
  /\ UNCHANGED <<lastErr, config, order, signal, budget, day, hour, offset, cursor, lastValue, uniq,
                 repos, idx, done, req, writer, err, held, attempts, fails>>

\* ----------------------------------- the metric tool: stars/forks/size
\* main: query := query + "sort:" + field + (field:>0 | field:<=lastValue),
\* and RepositorySearch starts with a nil cursor and no repos
MetricBatch ==
  /\ pc = "batch"
  /\ tool = "metric"
  /\ cursor' = Nil
  /\ repos' = <<>>
  /\ pc' = "page"
  /\ UNCHANGED <<lastErr, config, order, signal, flushed, budget, day, hour, offset, since, lastValue, uniq,
                 idx, done, req, writer, err, held, attempts, fails>>

\* the range clause of a batch
LastClause(v) == IF v = 0 THEN Nil ELSE v

\* RepositorySearch: client.Query(ctx, &q, {query, cursor})
MetricQuery ==
  /\ pc = "page"
  /\ tool = "metric"
  /\ req' = Request(BatchQuery(query, lastValue), Nil, Nil, cursor, Nil,
                    LastClause(lastValue))
  /\ attempts' = attempts + 1
  /\ pc' = "wait"
  /\ UNCHANGED <<lastErr, config, order, signal, flushed, budget, day, hour, offset, cursor, since, lastValue,
                 uniq, repos, idx, done, writer, err, held, fails>>

\* RepositorySearch: append the page; follow EndCursor or return
MetricPage(nodes, hasNext, endCursor) ==
  /\ lastErr' = NoErr
  /\ repos' = repos \o nodes
  /\ attempts' = 0
  /\ IF hasNext
     THEN cursor' = endCursor /\ pc' = "page"
     ELSE cursor' = cursor /\ pc' = "process"

MetricReplyAny ==
  /\ pc = "wait"
  /\ tool = "metric"
  /\ \E nodes \in AnyPages, hasNext \in BOOLEAN :
       /\ AnyReply(nodes, hasNext)
       /\ MetricPage(nodes, hasNext, Len(repos) + Len(nodes))
  /\ UNCHANGED <<config, order, signal, flushed, faults, day, hour, offset, since, lastValue, uniq,
                 idx, done, req, writer, err, held, fails>>

\* RepositorySearch returns nil, err and main calls log.Fatal
MetricError(e) ==
  /\ lastErr' = e
  /\ err' = e
  /\ pc' = "fatal"

MetricReplyError ==
  /\ pc = "wait"
  /\ tool = "metric"
  /\ faults < MaxFaults
  /\ ~cancelled
  /\ faults' = faults + 1
  /\ \E e \in ErrMsgs : MetricError(e)
  /\ UNCHANGED <<config, order, signal, flushed, events, day, hour, offset, cursor, since, lastValue,
                 uniq, repos, idx, done, req, writer, held, attempts, fails>>

\* for _, repo := range repos: a repo whose NameWithOwner is in uniq, or
\* is that of an earlier repo of the batch, is skipped; the others are
\* marked seen and printed in batch order.
PrintNew(nodes, u, w) ==
  LET marked == [i \in DOMAIN nodes |->
                   [node |-> nodes[i],
                    new |-> /\ nodes[i].name \notin u
                            /\ \A j \in 1..(i - 1) : nodes[j].name # nodes[i].name]]
      kept == SelectSeq(marked, LAMBDA m : m.new)
  IN [uniq |-> u \cup {nodes[i].name : i \in DOMAIN nodes},
      writer |-> w \o [k \in 1..Len(kept) |-> Row(kept[k].node, Nil, Nil)]]

\* value after the range loop: the field of the last repo of the batch
Trailing(rs) == rs[Len(rs)].value

\* main, from the return of RepositorySearch to the next batch or the end
MetricProcess ==
  /\ pc = "process"
  /\ tool = "metric"
  /\ IF Len(repos) = 0
     THEN /\ pc' = "done"
          /\ UNCHANGED <<uniq, writer, lastValue, flushed>>
     ELSE /\ uniq' = PrintNew(repos, uniq, writer).uniq
          /\ writer' = PrintNew(repos, uniq, writer).writer
          /\ flushed' = Len(writer')
          /\ IF Trailing(repos) = lastValue
             THEN pc' = "done" /\ UNCHANGED lastValue
             ELSE pc' = "batch" /\ lastValue' = Trailing(repos)
  /\ UNCHANGED <<lastErr, config, order, signal, budget, day, hour, offset, cursor, since, repos, idx,
                 done, req, err, held, attempts, fails>>

\* ------------------------------------------------------ the interrupt
\* signal.NotifyContext(context.Background(), os.Interrupt): an interrupt
\* does not end the process, it cancels ctx
Cancel ==
  /\ ~cancelled
  /\ pc \notin {"done", "fatal"}
  /\ cancelled' = TRUE
  /\ cut' = Len(writer)
  /\ UNCHANGED <<config, order, day, hour, pc, offset, cursor, since, lastValue,
                 uniq, repos, idx, done, req, writer, err, lastErr, held,
                 attempts, fails, events, faults, flushed>>

\* client.Query(ctx, ...) with a cancelled ctx returns the error of ctx
QueryCanceled ==
  /\ pc = "wait"
  /\ cancelled
  /\ CASE tool \in OffsetTools ->
            SearchError(MsgCanceled) /\ UNCHANGED <<offset, uniq>>
       [] tool \in WatermarkTools ->
            IterError(MsgCanceled) /\ UNCHANGED <<offset, uniq, repos>>
       [] OTHER ->
            /\ MetricError(MsgCanceled)
            /\ UNCHANGED <<offset, uniq, repos, fails>>
  /\ UNCHANGED <<config, order, signal, flushed, budget, day, hour, cursor, since,
                 lastValue, idx, done, req, writer, held, attempts>>

\* ------------------------------------------------- a stable backend
\* The matches of a query in the provider's order are ranked 1, 2, ...;
\* the page after cursor c holds the ranks c+1 .. c+PageSize, cut at the
\* last visible match, and HasNextPage tells whether visible matches
\* follow the page.
PageOf(matches, c) ==
  LET visible == Min(Len(matches), ResultCap)
      last == Min(c + PageSize, visible)
  IN [nodes |-> IF last > c THEN SubSeq(matches, c + 1, last) ELSE <<>>,
      hasNext |-> visible > c + PageSize]

\* the partition a request asks for, from its created: window
ReqPart(r) == IF tool = "hourly" THEN r.lo \div 3600 ELSE r.lo \div 86400

\* the matches of partition p: data gives the totals of the last
\* partitions, the repositories of distinct partitions are distinct
Total(p) ==
  LET b == p - (PartCount - Len(backend.data)) + 1
  IN IF b >= 1 /\ b <= Len(backend.data) THEN backend.data[b] ELSE 0

Matches(p) ==
  [r \in 1..Total(p) |-> Node(p * (MaxTotal + 1) + r, p * (MaxTotal + 1) + r, 0, 0)]

CursorPos(c) == IF c = Nil THEN 0 ELSE c

ReplyStable ==
  /\ pc = "wait"
  /\ tool \in OffsetTools
  /\ backend.kind = "stable"
  /\ LET page == PageOf(Matches(ReqPart(req)), CursorPos(req.cursor))
     IN SearchPage(page.nodes, page.hasNext)
  /\ UNCHANGED <<config, order, signal, flushed, budget, day, hour, cursor, since, lastValue, idx,
                 req, writer, err, held>>

\* ------------------------------------------------ a drifting backend
\* The matches of the last partition change their positions between the
\* requests: matches are inserted or removed ahead of them.  One match is
\* followed until it is in the result: it matches at every request, within
\* the first ResultCap positions, and between two requests in a row it
\* moves by at most MaxShift places.  A page holds the followed match when
\* it covers its position; the other nodes of the page are left out.
Abs(x) == IF x < 0 THEN -x ELSE x
Followed == Node(1, 1, 0, 0)
Caught == \E i \in DOMAIN repos : repos[i].id = Followed.id
Near(p, q) == q = Nil \/ Abs(p - q) <= MaxShift
Moves ==
  IF order.pos = Nil THEN 1..ResultCap
  ELSE {p \in (order.pos - MaxShift)..(order.pos + MaxShift) :
          p >= 1 /\ p <= ResultCap}
LastPart(r) == ReqPart(r) = PartCount - 1

ReplyDrift ==
  /\ pc = "wait"
  /\ tool \in OffsetTools
  /\ backend.kind = "drift"
  /\ IF LastPart(req)
     THEN IF Caught
          THEN /\ \E hasNext \in BOOLEAN : SearchPage(<<>>, hasNext)
               /\ UNCHANGED order
          ELSE \E p \in Moves, hasNext \in BOOLEAN :
                 LET c == CursorPos(req.cursor)
                 IN /\ p > c + PageSize => hasNext
                    /\ order' = Order(p, p, order.calm /\ Near(p, order.at))
                    /\ SearchPage(IF c < p /\ p <= c + PageSize
                                  THEN <<Followed>> ELSE <<>>, hasNext)
     ELSE /\ SearchPage(<<>>, FALSE)
          /\ UNCHANGED order
  /\ UNCHANGED <<config, signal, flushed, budget, day, hour, cursor, since, lastValue, idx,
                 req, writer, err, held>>

\* a request that fails has met the order of its own time; it fails with
\* an error both scrapers retry, or with one they do not
DriftErrs == {Msg504, MsgBadCredentials}

ReplyErrorDrift ==
  /\ pc = "wait"
  /\ tool \in OffsetTools
  /\ backend.kind = "drift"
  /\ LastPart(req)
  /\ faults < MaxDriftFaults
  /\ faults' = faults + 1
  /\ IF Caught
     THEN UNCHANGED order
     ELSE \E p \in Moves : order' = [order EXCEPT !.pos = p]
  /\ \E e \in DriftErrs : SearchError(e)
  /\ UNCHANGED <<config, signal, flushed, events, day, hour, offset, cursor, since, lastValue,
                 uniq, idx, done, req, writer, held, attempts>>

\* The watermark tool's matches: data[k] repositories pushed at time k,
\* in ascending order of push time, numbered in that order.
RECURSIVE SumTo(_, _)
SumTo(d, k) == IF k = 0 THEN 0 ELSE SumTo(d, k - 1) + d[k]

PushedBlock(d, k) ==
  [i \in 1..d[k] |-> Node(SumTo(d, k - 1) + i, SumTo(d, k - 1) + i, k, 0)]

RECURSIVE PushedAsc(_, _)
PushedAsc(d, k) ==
  IF k = 0 THEN <<>> ELSE PushedAsc(d, k - 1) \o PushedBlock(d, k)

\* sort:updated-asc, and pushed:>=since unless since is nil
PushedMatches(r) ==
  SelectSeq(PushedAsc(backend.data, Len(backend.data)),
            LAMBDA n : r.since = Nil \/ n.pushedAt >= r.since)

PushedReplyStable ==
  /\ pc = "wait"
  /\ tool \in WatermarkTools
  /\ backend.kind = "stable"
  /\ LET page == PageOf(PushedMatches(req), 0)
     IN IterPage(page.nodes, page.hasNext)
  /\ UNCHANGED <<config, order, signal, flushed, budget, day, hour, offset, cursor, since, lastValue,
                 uniq, req, writer, err, held>>

\* The metric tool's matches: data[k] repositories with value k - 1, in
\* descending order of value.
MetricBlock(d, k) ==
  [i \in 1..d[k] |-> Node(k * (ResultCap + 1) + i, k * (ResultCap + 1) + i,
                          0, k - 1)]

RECURSIVE MetricDesc(_, _)
MetricDesc(d, k) ==
  IF k = 0 THEN <<>> ELSE MetricBlock(d, k) \o MetricDesc(d, k - 1)

\* sort:<field>, and field:>0 or field:<=le
MetricMatches(r) ==
  SelectSeq(MetricDesc(backend.data, Len(backend.data)),
            LAMBDA n : IF r.le = Nil THEN n.value > 0 ELSE n.value <= r.le)

MetricReplyStable ==
  /\ pc = "wait"
  /\ tool = "metric"
  /\ backend.kind = "stable"
  /\ LET page == PageOf(MetricMatches(req), CursorPos(req.cursor))
     IN MetricPage(page.nodes, page.hasNext,
                   CursorPos(req.cursor) + Len(page.nodes))
  /\ UNCHANGED <<config, order, signal, flushed, budget, day, hour, offset, since, lastValue, uniq,
                 idx, done, req, writer, err, held, fails>>

\* ------------------------------------------------------ specifications
\* the queries of the command line: one without a sort clause, and the one
\* of the scheduled workflow, which carries one
PlainQuery == <<Clause("stars:>=10", <<>>)>>
SortedQuery == <<Clause("stars:>=10", <<>>), Clause("sort:stars-desc", <<>>)>>
BaseQueries == {PlainQuery, SortedQuery}

InitCommon ==
  /\ day = 0
  /\ hour = 0
  /\ offset = 0
  /\ cursor = Nil
  /\ since = Nil
  /\ lastValue = 0
  /\ uniq = {}
  /\ repos = <<>>
  /\ idx = 0
  /\ done = FALSE
  /\ req = NoReq
  /\ writer = <<>>
  /\ err = NoErr
  /\ lastErr = NoErr
  /\ held = FALSE
  /\ attempts = 0
  /\ fails = 0
  /\ events = 0
  /\ faults = 0
  /\ cancelled = FALSE
  /\ cut = Nil
  /\ flushed = 0
  /\ order = NoOrder

\* where main enters its loop
Entry(t) ==
  CASE t \in OffsetTools -> "main"
    [] t \in WatermarkTools -> "loop"
    [] OTHER -> "batch"

Init ==
  /\ tool \in Tools
  /\ backend = AnyBackend
  /\ endDay \in IF tool \in OffsetTools THEN 0..(MaxDays - 1) ELSE {0}
  /\ pc = Entry(tool)
  /\ runs = <<>>
  /\ query = PlainQuery
  /\ InitCommon

Next ==
  \/ StartSearch
  \/ Finish
  \/ Take
  \/ SendQuery
  \/ ReplyAny
  \/ ReplyError
  \/ Wake
  \/ WriteRows
  \/ PushedSearch
  \/ PushedReplyAny
  \/ PushedReplyError
  \/ IterYield
  \/ IterAdvance
  \/ MetricBatch
  \/ MetricQuery
  \/ MetricReplyAny
  \/ MetricReplyError
  \/ MetricProcess
  \/ Cancel
  \/ QueryCanceled

Spec == Init /\ [][Next]_vars

\* Every tool against an arbitrary backend whose repositories change their
\* display path between replies.
InitRename ==
  /\ tool \in Tools
  /\ backend = RenameBackend
  /\ endDay = 0
  /\ pc = Entry(tool)
  /\ runs = <<>>
  /\ query = PlainQuery
  /\ InitCommon

SpecRename == InitRename /\ [][Next]_vars

\* IterSearch of either watermark tool against an arbitrary backend, ranged
\* over by a loop that can break at any element.
InitIter ==
  /\ tool \in WatermarkTools
  /\ backend = AnyBackend
  /\ endDay = 0
  /\ pc = Entry(tool)
  /\ runs = <<>>
  /\ query = PlainQuery
  /\ InitCommon

NextIter ==
  \/ PushedSearch
  \/ PushedReplyAny
  \/ PushedReplyError
  \/ Wake
  \/ IterYield
  \/ IterYieldStop
  \/ IterAdvance

SpecIter == InitIter /\ [][NextIter]_vars

\* Every tool against an arbitrary backend, started with either query.
InitQuery ==
  /\ tool \in Tools
  /\ backend = AnyBackend
  /\ endDay = 0
  /\ pc = Entry(tool)
  /\ runs = <<>>
  /\ query \in BaseQueries
  /\ InitCommon

SpecQuery == InitQuery /\ [][Next]_vars

\* One partition with matches, against a stable backend without errors.
InitOffset ==
  /\ tool \in OffsetTools
  /\ endDay = 0
  /\ \E n \in 0..MaxTotal : backend = StableBackend(<<n>>)
  /\ pc = Entry(tool)
  /\ runs = <<>>
  /\ query = PlainQuery
  /\ InitCommon

NextOffset ==
  \/ StartSearch
  \/ Finish
  \/ Take
  \/ SendQuery
  \/ ReplyStable
  \/ WriteRows

SpecOffset == InitOffset /\ [][NextOffset]_vars

\* sequences over S of length at most n
SeqsUpTo(S, n) == UNION {[1..k -> S] : k \in 0..n}

\* The offset scrapers over a range of days against a stable backend
\* without errors: the last partitions hold 0, 5 or 7 matches each.
PartSizes == {0, 5, 7}

InitParts ==
  /\ tool \in OffsetTools
  /\ endDay \in 0..(MaxDays - 1)
  /\ \E d \in SeqsUpTo(PartSizes, BusyParts) : backend = StableBackend(d)
  /\ pc = Entry(tool)
  /\ runs = <<>>
  /\ query = PlainQuery
  /\ InitCommon

SpecParts == InitParts /\ [][NextOffset]_vars

\* The watermark tool against a stable backend without errors.  The single
\* thread of control always takes its next step.
BlockSizes == {1, PageSize \div 2, PageSize - 1, PageSize}

InitPushed ==
  /\ tool = "pushed"
  /\ endDay = 0
  /\ \E d \in SeqsUpTo(BlockSizes, MaxBlocks) : backend = StableBackend(d)
  /\ pc = Entry(tool)
  /\ runs = <<>>
  /\ query = PlainQuery
  /\ InitCommon

NextPushed ==
  \/ PushedSearch
  \/ PushedReplyStable
  \/ IterYield
  \/ IterAdvance

FairPushed == InitPushed /\ [][NextPushed]_vars /\ WF_vars(NextPushed)

\* One range of a single day of an offset scraper against an arbitrary
\* backend.  The thread of control always takes its next step and the
\* backend answers every request.
InitWalk ==
  /\ tool \in OffsetTools
  /\ backend = AnyBackend
  /\ endDay = 0
  /\ pc = Entry(tool)
  /\ runs = <<>>
  /\ query = PlainQuery
  /\ InitCommon

NextWalk ==
  \/ StartSearch
  \/ Finish
  \/ Take
  \/ SendQuery
  \/ ReplyAny
  \/ ReplyError
  \/ Wake
  \/ WriteRows

FairWalk == InitWalk /\ [][NextWalk]_vars /\ WF_vars(NextWalk)

\* One day of an offset scraper against a drifting backend whose requests
\* can fail.
InitDrift ==
  /\ tool \in OffsetTools
  /\ backend = DriftBackend
  /\ endDay = 0
  /\ pc = Entry(tool)
  /\ runs = <<>>
  /\ query = PlainQuery
  /\ InitCommon

NextDrift ==
  \/ StartSearch
  \/ Finish
  \/ Take
  \/ SendQuery
  \/ ReplyDrift
  \/ ReplyErrorDrift
  \/ Wake
  \/ WriteRows

SpecDrift == InitDrift /\ [][NextDrift]_vars

\* The tool is run again with the same arguments: a new process, whose
\* state is that of a first run; the output of the run before is kept for
\* comparison.
Rerun ==
  /\ pc = "done"
  /\ Len(runs) < MaxRuns - 1
  /\ runs' = Append(runs, writer)
  /\ pc' = Entry(tool)
  /\ day' = 0 /\ hour' = 0 /\ offset' = 0
  /\ cursor' = Nil /\ since' = Nil /\ lastValue' = 0
  /\ uniq' = {} /\ repos' = <<>> /\ idx' = 0 /\ done' = FALSE
  /\ req' = NoReq /\ writer' = <<>> /\ flushed' = 0
  /\ err' = NoErr /\ lastErr' = NoErr
  /\ held' = FALSE /\ attempts' = 0 /\ fails' = 0
  /\ UNCHANGED <<tool, backend, endDay, query, order, budget, signal>>

\* Runs of an offset scraper or of the watermark tool against a stable
\* backend whose requests can fail, followed by a run with the same
\* arguments.
InitTwice ==
  \/ InitParts
  \/ /\ InitPushed
     /\ Len(backend.data) < MaxBlocks

NextTwice ==
  \/ NextOffset
  \/ ReplyError
  \/ NextPushed
  \/ PushedReplyError
  \/ Wake
  \/ Rerun

SpecTwice == InitTwice /\ [][NextTwice]_vars

\* The metric tool against a stable backend without errors.
ValueCounts == {0, 1, PageSize + 1}

InitMetric ==
  /\ tool = "metric"
  /\ endDay = 0
  /\ \E d \in SeqsUpTo(ValueCounts, MaxBlocks) : backend = StableBackend(d)
  /\ pc = Entry(tool)
  /\ runs = <<>>
  /\ query = PlainQuery
  /\ InitCommon

NextMetric ==
  \/ MetricBatch
  \/ MetricQuery
  \/ MetricReplyStable
  \/ MetricProcess

FairMetric == InitMetric /\ [][NextMetric]_vars /\ WF_vars(NextMetric)

\* ---------------------------------------------------------------- claims
RetryTools == OffsetTools \cup {"pushed"}
NonTransient(e) == e # NoErr /\ e \notin TransientMsgs

\* C1 (as stated): over the whole run of a date-partitioned scraper, for
\* any backend responses, no two rows written carry the same DatabaseId.
C1_NoDuplicateIds ==
  tool \in OffsetTools =>
    \A i, j \in DOMAIN writer : i < j => writer[i].id # writer[j].id

\* C1 (amended): two rows written with the same DatabaseId always stem from
\* two different partitions; the rows of one Search carry distinct ids.
C1_UniquePerPartition ==
  tool \in OffsetTools =>
    \A i, j \in DOMAIN writer :
      (i < j /\ writer[i].id = writer[j].id) => writer[i].lo # writer[j].lo

\* a finished run of two written rows, in which the backend returned one
\* repository for two partitions
C1_Witness ==
  /\ tool \in OffsetTools
  /\ pc = "done"
  /\ Len(writer) = 2
  /\ writer[1].id = writer[2].id

\* a step of a tool with a retry loop that treats a transient failure as
\* the retry rule demands
RetriedStep ==
  tool \in RetryTools =>
    /\ (pc = "wait" /\ lastErr' \in TransientMsgs) =>
         /\ pc' = "sleep"
         /\ UNCHANGED <<uniq, repos, writer, offset, since>>
    /\ (pc # "wait" /\ pc' = "wait" /\ fails > 0) => req' = req
    /\ (pc = "wait" /\ lastErr' = NoErr) => attempts = fails + 1

\* C7: a page request that fails with an error of a transient class is
\* retried: the failure changes neither the seen-set nor the results nor
\* the position, the retry is the identical request, and the page that
\* failed k times has been requested k+1 times when it succeeds.
C7_TransientRetry == [][RetriedStep]_vars

\* a step that treats a failure outside the transient classes as final
FatalStep ==
  /\ (pc = "wait" /\ NonTransient(lastErr')) =>
       (pc' = "fatal" /\ err' = lastErr' /\ attempts' = attempts)
  /\ NonTransient(lastErr) => (req' = req /\ attempts' = attempts)

\* C8: a reply with an error outside the transient classes ends the
\* iteration with that error, surfaced to the caller, and neither a retry
\* nor any other request is sent after it.
C8_FatalNoRetry == [][FatalStep]_vars

\* the first attempt of a page failed with bad credentials
C8_Witness ==
  /\ pc = "fatal"
  /\ err = MsgBadCredentials
  /\ attempts = 1
  /\ fails = 0

\* a reply with an error is classified by the three transient classes
ClassifiedStep ==
  (tool \in RetryTools /\ pc = "wait" /\ lastErr' # NoErr) =>
    IF lastErr' \in TransientMsgs THEN pc' = "sleep" ELSE pc' = "fatal"

\* C9: in the offset strategy and in the watermark strategy alike, an error
\* of one of the three transient classes (secondary rate limit, something
\* went wrong, 504 gateway timeout) is retried after the backoff and any
\* other error is fatal.
C9_SameClassification == [][ClassifiedStep]_vars

\* a step after a fatal error of a date-partitioned scraper changes nothing
\* of the run
AbortedStep ==
  (tool \in OffsetTools /\ NonTransient(lastErr)) =>
    /\ writer' = writer
    /\ req' = req
    /\ day' = day /\ hour' = hour
    /\ pc' = pc

\* C10: once a Search of a date-partitioned scraper has failed with a fatal
\* error, no request is sent, no partition is started and no row is written.
C10_FatalAbortsRun == [][AbortedStep]_vars

\* a fatal error in a partition whose Search had collected repositories,
\* after an earlier partition's rows were written
C10_Witness ==
  /\ tool \in OffsetTools
  /\ pc = "fatal"
  /\ writer # <<>>
  /\ uniq # {}
  /\ offset > 0

\* C2: against a stable backend without errors that holds N <= 1000 matches,
\* Search returns the N matches, each once, in the backend's order, and
\* no page window starts beyond the end of the previous one.
C2_OffsetComplete ==
  (tool \in OffsetTools /\ backend.kind = "stable" /\ Total(PartIndex) <= 1000) =>
    /\ pc = "write" => repos = Matches(PartIndex)
    /\ pc \in {"retry", "send", "wait"} => offset <= Len(repos)

\* a Search that walked to the last offset and returned 1000 matches
C2_Witness ==
  /\ backend.kind = "stable"
  /\ pc = "write"
  /\ Len(repos) = 1000
  /\ offset = 910

\* C3 (as stated): with 300 matches, the pages at offsets 0, 91 and 182
\* together hold all 300.
C3_ThreePages ==
  (backend.kind = "stable" /\ Total(PartIndex) = 300
     /\ pc = "retry" /\ offset = 273) => Len(repos) = 300

\* C3 (amended): with 300 matches, the pages at offsets 0, 91 and 182 hold
\* the first 282 and Search goes on to offset 273; the four pages together
\* hold all 300.
C3_FourPages ==
  (backend.kind = "stable" /\ Total(PartIndex) = 300) =>
    /\ (pc = "retry" /\ offset = 273) =>
         repos = SubSeq(Matches(PartIndex), 1, 282)
    /\ pc = "write" => (offset = 273 /\ repos = Matches(PartIndex))

\* a Search over 300 matches that has returned after its fourth page
C3_Witness ==
  /\ backend.kind = "stable"
  /\ Total(PartIndex) = 300
  /\ pc = "write"
  /\ Len(repos) = 300

\* every push time of the backend is shared by fewer repositories than a
\* page holds
FewTies == \A k \in DOMAIN backend.data : backend.data[k] < PageSize

\* C4: against a stable backend without errors whose push times are each
\* shared by fewer repositories than a page holds, every request after the
\* first asks for pushed >= the last push time seen, and the finished
\* iteration has yielded every match exactly once, those sharing a boundary
\* time included.
C4_WatermarkComplete ==
  (tool = "pushed" /\ backend.kind = "stable" /\ FewTies) =>
    /\ (pc = "wait" /\ writer # <<>>) =>
         req.since = PushedAsc(backend.data, Len(backend.data))[Len(writer)].pushedAt
    /\ pc = "done" =>
         writer = Rows(PushedAsc(backend.data, Len(backend.data)),
                       [lo |-> Nil, hi |-> Nil])

\* a finished iteration over two push times of 99 repositories each: the
\* second page starts with the 100th repository again and goes on with the
\* 98 others of its push time
C4_Witness ==
  /\ tool = "pushed"
  /\ backend = StableBackend(<<PageSize - 1, PageSize - 1>>)
  /\ pc = "done"
  /\ Len(writer) = 2 * (PageSize - 1)

\* C5: against a finite unchanging backend without errors IterSearch
\* terminates.
C5_Terminates == <>(pc = "done")

\* C6: against a finite unchanging backend without errors the batch loop
\* of the metric tool terminates.
C6_Terminates == <>(pc \in {"done", "fatal"})

\* the created: window of partition p of the range
PartWindow(p) ==
  IF tool = "hourly"
  THEN Window(tool, p \div HoursPerDay, p % HoursPerDay)
  ELSE Window(tool, p, 0)

\* the rows of the first k partitions of a stable backend, one partition
\* after the other, nothing dropped
RECURSIVE Output(_)
Output(k) ==
  IF k = 0 THEN <<>>
  ELSE Output(k - 1) \o Rows(Matches(k - 1), PartWindow(k - 1))

\* the output is the concatenation of the results of the partitions done
PartsWritten ==
  /\ writer = Output(PartIndex)
  /\ Len(writer) = SumTo([p \in 1..PartIndex |-> Total(p - 1)], PartIndex)
  /\ pc = "done" => PartIndex = PartCount

\* a Search starts with fresh locals at the partition main is at, and main
\* moves to the next partition only by returning from one Search
PartStep ==
  /\ (pc = "main" /\ pc' # "main") =>
       \/ pc' = "done" /\ PartIndex = PartCount
       \/ /\ pc' = "retry" /\ uniq' = {} /\ repos' = <<>> /\ offset' = 0
          /\ PartIndex' = PartIndex
  /\ PartIndex' # PartIndex =>
       (pc = "write" /\ pc' = "main" /\ PartIndex' = PartIndex + 1)
  /\ (pc # "main" /\ pc' = "main") => PartIndex' = PartIndex + 1
  /\ writer' # writer => PartIndex' = PartIndex + 1

\* C11: one Search per partition, in ascending order, each with an empty
\* seen-set; the output is the concatenation of the partitions' results,
\* its length the sum of their counts (5 and 7 give 12).
C11_Partitioning == []PartsWritten /\ [][PartStep]_vars

\* a finished daily run over two days that hold 5 and 7 matches
C11_Witness ==
  /\ tool = "daily"
  /\ endDay = 1
  /\ backend = StableBackend(<<5, 7>>)
  /\ pc = "done"
  /\ Len(writer) = 12

\* the window of a request that is sent starts the range, or is the window
\* of the request before it, or starts one second after that one ended
WindowStep ==
  (tool \in OffsetTools /\ pc # "wait" /\ pc' = "wait") =>
    /\ req'.lo <= req'.hi
    /\ IF req = NoReq
       THEN req'.lo = 0
       ELSE \/ req'.lo = req.lo /\ req'.hi = req.hi
            \/ req'.lo = req.hi + 1

\* the window of the last request of a finished run ends the range
WindowsEnd ==
  (tool \in OffsetTools /\ pc = "done") => req.hi = (endDay + 1) * 86400 - 1

\* C12: the created: windows of a run are pairwise disjoint and every
\* second from start 00:00:00 to end 23:59:59 lies in exactly one of them:
\* the first window starts the range, each next one starts one second
\* after the one before it ended, and the last one ends the range.
C12_WindowsTile == []WindowsEnd /\ [][WindowStep]_vars

\* a finished hourly run over two days: 48 windows
C12_Witness ==
  /\ tool = "hourly"
  /\ endDay = 1
  /\ pc = "done"
  /\ PartIndex = 2 * HoursPerDay
  /\ req.lo = 86400 + 23 * 3600

\* blocked in time.Sleep of the backoff, or in rl.Take of the rate limiter
Suspended == pc = "sleep" \/ (tool = "hourly" /\ pc = "retry")

\* with ctx cancelled, the step that leaves a suspension ends the iteration
\* and changes neither the offset nor the watermark nor the seen-set
InterruptedStep ==
  (cancelled /\ Suspended /\ pc' # pc) =>
    /\ pc' \in {"done", "fatal"}
    /\ UNCHANGED <<offset, since, uniq>>

\* C13: an iteration blocked in the rate-limiter wait or in the backoff
\* sleep when the interrupt arrives leaves that suspension because of the
\* interrupt, not by getting its slot or by sleeping to the end, and its
\* offset, watermark and seen-set are unchanged.
C13_Interruptible == [][InterruptedStep]_vars

\* C14: when a run that was interrupted has ended, every row that was
\* handed to the output writer before the interrupt has reached stdout.
C14_CancelKeepsOutput ==
  (cancelled /\ pc \in {"done", "fatal"}) => flushed >= cut

\* C15: a completed run that follows a completed run with the same query
\* and range against the same backend has written the same rows in the
\* same order, and all of them have reached stdout.
C15_Idempotent ==
  (pc = "done" /\ runs # <<>>) => (writer = runs[1] /\ flushed = Len(writer))

\* a second daily run over days of 5 and 7 matches that had to retry a
\* request has completed
C15_Witness ==
  /\ tool = "daily"
  /\ backend = StableBackend(<<5, 7>>)
  /\ endDay = 1
  /\ runs # <<>>
  /\ pc = "done"
  /\ faults > 0
  /\ Len(writer) = 12

\* the identifiers of the rows written
Emitted == {writer[i].id : i \in DOMAIN writer}

\* no repository is written twice by one iteration, whatever its paths
OncePerId ==
  \A i, j \in DOMAIN writer :
    (i < j /\ writer[i].id = writer[j].id) => writer[i].lo # writer[j].lo

\* a repository of the page whose identifier was not written before is
\* written, whatever path it comes with
NotMerged ==
  /\ (tool \in WatermarkTools /\ pc = "range" /\ idx' = idx + 1
        /\ repos[idx + 1].id \notin Emitted) =>
       writer' = Append(writer, Row(repos[idx + 1], Nil, Nil))
  /\ (tool = "metric" /\ pc = "process" /\ pc' # "process") =>
       \A k \in DOMAIN repos : \E i \in DOMAIN writer' : writer'[i].id = repos[k].id

\* C16: in every tool the seen-set decides by the identifier: a repository
\* returned twice with the same DatabaseId and different paths is written
\* at most once, and a repository is never dropped because its path equals
\* that of a repository with another DatabaseId.
C16_KeyIsIdentifier == []OncePerId /\ [][NotMerged]_vars

\* the elements of a sequence of nodes or rows carry distinct identifiers
DistinctIds(q) == \A i, j \in DOMAIN q : i < j => q[i].id # q[j].id

\* C17: within one Search call, and within one IterSearch sequence, no
\* DatabaseId is emitted twice whatever pages the backend returns, and the
\* seen-set is at every point the set of the identifiers emitted so far.
C17_SeenSetExact ==
  /\ (tool \in OffsetTools /\ pc \in {"retry", "send", "wait", "sleep", "write"}) =>
       /\ DistinctIds(repos)
       /\ uniq = {repos[i].id : i \in DOMAIN repos}
  /\ tool = "pushed" =>
       /\ DistinctIds(writer)
       /\ uniq = Emitted

\* a Search whose second page brought the repository of its first page
\* again
C17_Witness ==
  /\ tool \in OffsetTools
  /\ pc = "write"
  /\ writer = <<>>
  /\ offset = Step
  /\ events = 2
  /\ Len(repos) = 1

\* inside Search the offset is a multiple of 91 up to 910, and the request
\* in flight carries the cursor of that offset, none at offset 0
WalkShape ==
  (tool \in OffsetTools /\ pc \in {"retry", "send", "wait", "sleep"}) =>
    /\ offset % 91 = 0
    /\ offset <= 910
    /\ pc = "wait" => req.cursor = (IF offset = 0 THEN Nil ELSE offset)

\* the offset moves by 91 at a time, on a page that reports a next page, and
\* Search returns on the first page that reports none
WalkStep ==
  /\ (tool \in OffsetTools /\ pc = "wait" /\ pc' # "wait" /\ lastErr' = NoErr) =>
       IF ~done' /\ offset < 910
       THEN pc' = "retry" /\ offset' = offset + 91
       ELSE pc' = "write" /\ offset' = offset
  /\ (tool \in OffsetTools /\ offset' # offset) =>
       \/ pc = "main" /\ offset' = 0
       \/ pc = "wait" /\ offset' = offset + 91

\* C18: the pages of one Search are asked for at the offsets 0, 91, 182,
\* ..., at most 910, in increasing order, without cursor at offset 0; the
\* walk stops at the first page without a next page; and when the
\* transient errors stop, Search returns.
C18_OffsetWalk ==
  /\ []WalkShape
  /\ [][WalkStep]_vars
  /\ (pc = "retry" ~> pc \in {"write", "fatal"})

\* a Search that met a failure and returned from its eleventh page, which
\* reported a next page
C18_Witness ==
  /\ tool \in OffsetTools
  /\ pc = "write"
  /\ offset = 910
  /\ ~done
  /\ faults > 0
  /\ repos # <<>>

\* C19: when an iteration has ended with a fatal error, no repository that
\* it collected from its earlier pages has reached the output: none of the
\* partition of the failed Search, none at all of the failed IterSearch.
C19_NoPartialOutput ==
  pc = "fatal" =>
    /\ tool \in OffsetTools =>
         \A i \in 1..flushed : writer[i].lo # Window(tool, day, hour).lo
    /\ tool = "pushed" => flushed = 0

\* C20: in the hourly scraper a slot of the rate governor is held exactly
\* between rl.Take and the request that follows it; every request, first
\* attempt or retry, is sent from that position and gives the slot up; a
\* slot is acquired only at the Retry label and the only step that follows
\* the acquisition is the request, which does follow.
GovernorHeld == tool = "hourly" => (held <=> pc = "send")
GovernorStep ==
  tool = "hourly" =>
    /\ (pc' = "wait" /\ pc # "wait") => (pc = "send" /\ held /\ ~held')
    /\ (held' /\ ~held) => (pc = "retry" /\ pc' = "send")
    /\ held => (pc' = "wait" /\ ~held' /\ attempts' = attempts + 1)
C20_GovernorBeforeAttempt ==
  /\ []GovernorHeld
  /\ [][GovernorStep]_vars
  /\ ((tool = "hourly" /\ held) ~> (pc = "wait"))
C20_Witness ==
  /\ tool = "hourly" /\ pc = "wait" /\ ~held
  /\ fails > 0 /\ attempts > 1 /\ offset > 0

\* C21: the watermark is nil until a repository has been seen and every
\* request of IterSearch carries the watermark as its pushed filter (none
\* while it is nil); after a non-final page the watermark is the maximum of
\* the push times seen so far, that is of the former watermark and the push
\* times of the page, so an empty page leaves it unchanged; it never
\* decreases.
PushTimes(rs) == {rs[i].pushedAt : i \in DOMAIN rs}
MaxSeen(rs, s) == CHOOSE m \in PushTimes(rs) \cup {s} :
                    \A t \in PushTimes(rs) \cup {s} : t <= m
NoFilterAtFirst == (tool \in WatermarkTools /\ uniq = {}) => since = Nil
WatermarkStep ==
  tool \in WatermarkTools =>
    /\ (pc = "loop" /\ pc' = "wait") => req'.since = since
    /\ (pc = "range" /\ pc' = "loop") => since' = MaxSeen(repos, since)
    /\ since' >= since
C21_WatermarkIsMaximum == []NoFilterAtFirst /\ [][WatermarkStep]_vars

\* C22: every request of the watermark tools and of the metric tool carries
\* the query of the command line, then the one sort clause the program adds,
\* then at most one range filter, whatever the depth and the number of
\* retries; it holds exactly one sort clause, whatever the query of the
\* command line is.
SortKeys == {"sort:updated-asc", "sort:field", "sort:stars-desc"}
RangeKeys == {"pushed:>=", "field:<=", "field:>"}
SortClauses(q) == SelectSeq(q, LAMBDA c : c.key \in SortKeys)
AddedSort ==
  IF tool = "metric" THEN Clause("sort:field", <<>>)
                     ELSE Clause("sort:updated-asc", <<>>)
AddedAfterSort(q) == SubSeq(q, Len(query) + 2, Len(q))
C22_OneSortClause ==
  (tool \in WatermarkTools \cup {"metric"} /\ req # NoReq) =>
    /\ Len(req.query) > Len(query)
    /\ SubSeq(req.query, 1, Len(query)) = query
    /\ req.query[Len(query) + 1] = AddedSort
    /\ Len(AddedAfterSort(req.query)) <= 1
    /\ \A i \in DOMAIN AddedAfterSort(req.query) :
         AddedAfterSort(req.query)[i].key \in RangeKeys
    /\ Len(SortClauses(req.query)) = 1

\* C23: IterSearch has ended exactly when it is exhausted, when the consumer
\* has answered false, or when it has yielded an error, and it can go on in
\* every other state; after the end nothing more is yielded and no request
\* is sent; an error is yielded at most once, as the last element, and
\* exhaustion follows a page without a next page that was ranged over to
\* its end.
Ended == pc \in {"done", "stopped", "fatal"}
EndsThreeWays ==
  /\ Ended \/ ENABLED NextIter
  /\ err # NoErr <=> pc = "fatal"
StopStep ==
  /\ Ended => UNCHANGED <<pc, writer, req, attempts, err, uniq>>
  /\ err' # err => (err = NoErr /\ pc = "wait" /\ pc' = "fatal" /\ writer' = writer)
  /\ (pc' = "done" /\ pc # "done") => (done /\ idx = Len(repos))
  /\ (pc' = "stopped" /\ pc # "stopped") => Len(writer') = Len(writer) + 1
C23_StopProtocol == []EndsThreeWays /\ [][StopStep]_vars
C23_Witness ==
  /\ pc = "stopped" /\ Len(writer) = 2 /\ ~done /\ req.since # Nil /\ faults > 0

\* C24 as stated: when the walk of the last partition has returned, the
\* match that was followed, which moved by at most MaxShift places between
\* any two requests in a row and stayed within the first ResultCap
\* positions, is in the result.
C24_NoneMissing ==
  (tool \in OffsetTools /\ pc = "write" /\ order.pos # Nil) => Caught

\* C24: the same when the match moved by at most MaxShift places between any
\* two requests that were answered with a page one after the other, however
\* many failed requests lie between them.
C24_NoneMissingBetweenPages ==
  (tool \in OffsetTools /\ pc = "write" /\ order.pos # Nil /\ order.calm) =>
    Caught
C24_Witness ==
  /\ tool \in OffsetTools /\ pc = "write" /\ order.calm
  /\ order.pos > ResultCap - MaxShift
  /\ offset = 910 /\ faults > 0
  /\ repos = <<Followed>>

====
